---- MODULE Spec2Model ----
(***************************************************************************)
(* The interactive ASCII background of src/script.js (lines 4-210): a grid *)
(* of glyph cells drawn on a canvas.  Cells near the pointer scramble      *)
(* through random glyphs and then settle back, fading from HOVER_COLOR to  *)
(* BASE_COLOR.  One state machine: the module-level variables of the       *)
(* closure are the state, every event handler is one action.               *)
(*                                                                         *)
(* Time is in milliseconds.  Only frames advance `clock`: the frame        *)
(* callback animate(now) runs with now = the new clock value, and the      *)
(* other handlers run between two frames.                                  *)
(***************************************************************************)
EXTENDS Integers, Sequences, FiniteSets, TLC

VARIABLES
  rows, cols,          \* grid dimensions (line 18)
  grid,                \* [<<r, c>> -> cell record] (line 19)
  dirtySet,            \* set of integer keys (line 20)
  mouseRow, mouseCol,  \* tracked pointer cell (line 21)
  lastFrame,           \* timestamp of the latest scramble tick (line 126)
  resizeTimer,         \* handle of the latest timeout: the time it is due; 0
                       \* before the first resize (line 201)
  timers,              \* the timeouts that are pending, by handle (line 204)
  toRemove,            \* the toRemove array of the latest animate call (line 137)
  read,                \* history: the <<r, c>> at which the latest animate call
                       \* read grid[r][c] (line 143)
  drawn,               \* the canvas: [<<r, c>> -> <<symbol, color>>] last
                       \* painted by drawCell (lines 62-76)
  redrawn,             \* history: the cells the latest handler passed to drawCell
  clock,               \* current time, ms: the timestamp of the latest frame
  op                   \* history: the handler that ran last

vars == <<rows, cols, grid, dirtySet, mouseRow, mouseCol, lastFrame,
          resizeTimer, timers, toRemove, read, drawn, redrawn, clock, op>>

----------------------------------------------------------------------------
(* Configuration (lines 10-16, 127, 204)                                   *)

SYMBOLS ==
  << "@", "#", "%", "^", "&", "*", "[", "]", "{", "}", "~", "<", ">", "|",
     "/", "\\", "+", "-", "=", ".", ":", ";", "!", "?", "$" >>

CELL_SIZE == 22

\* A colour string "#rrggbb" is the sequence of "#" and its six hex digits.
BASE_COLOR == << "#", 14, 0, 14, 0, 14, 0 >>

HOVER_COLOR == << "#", 8, 8, 8, 8, 8, 8 >>

SCRAMBLE_FRAMES == 6

SETTLE_DURATION == 400

FRAME_INTERVAL == 1000 \div 20

RESIZE_DELAY == 150

KEY_BASE == 10000

\* origSymbol of a cell that is not animating
NULL == "null"

----------------------------------------------------------------------------
(* Bounds of the exploration                                               *)

\* animate() is not called after this time
MaxClock == 800

\* time between two frames: every second frame is a scramble tick
FrameDeltas == {25}

\* time between two frames when frames were dropped, and the instants at
\* which a late frame is explored
LateFrameDeltas == {100}

LateFrameTimes == {100, 675}

\* the run to completion: frames every LiveFrameDeltas ms up to LiveMaxClock,
\* no pointer event after ArmDeadline and no resize event after
\* LiveResizeDeadline (its rebuild comes at any later time)
LiveFrameDeltas == {50}

ArmDeadline == 350

LiveResizeDeadline == 0

LiveMaxClock == 1250

\* bursts of resize events: the instants at which a burst may begin, the
\* instants of resize events, and the time of the last frame
BurstStarts == {0, 400}

ResizeTimes == {0, 100, 200, 400, 500}

ResizeMaxClock == 800

\* rows and columns for which the key encoding is checked
KeyRows == {0, 1, 2, 37, 999}

KeyCols == {0, 1, 21, 5000, 9999}

\* the fade alone, frame by frame: the time between two frames, and the time
\* of the last frame
FineFrameDeltas == {1, 3, 100}

FadeMaxClock == 800

\* outcomes of Math.floor(Math.random() * SYMBOLS.length) that are explored
RandomIndices == {0, 1}

\* outcomes of Math.floor(Math.random() * 3) that are explored
RandomJitters == {0, 2}

\* <<canvas.clientWidth, canvas.clientHeight>> when buildGrid runs
ClientSizes == { <<22, 0>>, <<0, 22>> }

\* pointer offsets <<e.clientX - rect.left, e.clientY - rect.top>>
PointerOffsets == { <<5, 5>>, <<50, 5>>, <<5, 50>> }

\* the instants at which pointer and resize events are explored; frames run
\* at every instant
EventTimes == {0, 350, 750}

----------------------------------------------------------------------------
(* Helpers (lines 26-29)                                                   *)

\* randSymbol(): the glyphs the explored random outcomes select
randSymbols == { SYMBOLS[i + 1] : i \in RandomIndices }

key_Narrow(r, c) == r * 1000 + c

key(r, c) == r * KEY_BASE + c

\* decoding of a key in animate (lines 140-141)
keyRow(k) == k \div KEY_BASE

keyCol(k) == k % KEY_BASE

Cells(nr, nc) == (0 .. nr - 1) \X (0 .. nc - 1)

\* Math.ceil(a / b) for integers a >= 0, b > 0
Ceil(a, b) == (a + b - 1) \div b

----------------------------------------------------------------------------
(* Colour helpers (lines 179-198)                                          *)

RECURSIVE BitOr(_, _)
BitOr(a, b) ==
  IF a = 0 THEN b
  ELSE IF b = 0 THEN a
  ELSE (IF a % 2 = 1 \/ b % 2 = 1 THEN 1 ELSE 0) + 2 * BitOr(a \div 2, b \div 2)

RECURSIVE Pow(_, _)
Pow(b, n) == IF n = 0 THEN 1 ELSE b * Pow(b, n - 1)

ShiftLeft(a, n) == a * Pow(2, n)

\* parseInt(digits, 16)
RECURSIVE ParseHex(_)
ParseHex(ds) ==
  IF ds = << >> THEN 0 ELSE 16 * ParseHex(SubSeq(ds, 1, Len(ds) - 1)) + ds[Len(ds)]

\* n.toString(16), as the sequence of its hex digits
RECURSIVE ToHex(_)
ToHex(n) == IF n < 16 THEN << n >> ELSE Append(ToHex(n \div 16), n % 16)

hexToRGB(hex) ==
  LET n == ParseHex(Tail(hex))
  IN  << (n \div 65536) % 256, (n \div 256) % 256, n % 256 >>

rgbToHex(r, g, b) ==
  << "#" >> \o
  Tail(ToHex(BitOr(BitOr(BitOr(ShiftLeft(1, 24), ShiftLeft(r, 16)),
                         ShiftLeft(g, 8)), b)))

\* Fractions are records [num, den] with den > 0, kept in lowest terms.
RECURSIVE GCD(_, _)
GCD(a, b) == IF b = 0 THEN a ELSE GCD(b, a % b)

Abs(x) == IF x < 0 THEN -x ELSE x

Frac(n, d) ==
  LET g == GCD(Abs(n), d) IN [num |-> n \div g, den |-> d \div g]

\* Math.min(x, 1) for a fraction x
MinOne(x) == IF x.num >= x.den THEN Frac(1, 1) ELSE x

\* 1 - Math.pow(1 - t, 3)
easeOutCubic(t) ==
  Frac(Pow(t.den, 3) - Pow(t.den - t.num, 3), Pow(t.den, 3))

\* Math.round(a + d * t) for integers a, d and a fraction t:
\* floor(a + d * t + 1/2)
RoundLerp(a, d, t) ==
  LET g == GCD(Abs(d), t.den)
      p == (d \div g) * t.num
      q == t.den \div g
  IN  a + ((2 * p + q) \div (2 * q))

lerpColor_Swapped(a, b, t) ==
  LET ca == hexToRGB(b)
      cb == hexToRGB(a)
  IN  rgbToHex(RoundLerp(ca[1], cb[1] - ca[1], t),
               RoundLerp(ca[2], cb[2] - ca[2], t),
               RoundLerp(ca[3], cb[3] - ca[3], t))

lerpColor(a, b, t) ==
  LET ca == hexToRGB(a)
      cb == hexToRGB(b)
  IN  rgbToHex(RoundLerp(ca[1], cb[1] - ca[1], t),
               RoundLerp(ca[2], cb[2] - ca[2], t),
               RoundLerp(ca[3], cb[3] - ca[3], t))

----------------------------------------------------------------------------
(* Build grid (lines 32-59)                                                *)

\* the record pushed for every cell (lines 45-52)
NewCell(sym) ==
  [ symbol |-> sym, origSymbol |-> NULL, color |-> BASE_COLOR,
    state |-> "idle", framesLeft |-> 0, settleStart |-> 0 ]

\* what drawCell paints for a cell record (lines 62-76)
drawCell(cell) == << cell.symbol, cell.color >>

\* buildGrid() with canvas.clientWidth = w and canvas.clientHeight = h,
\* ending with fullDraw() (lines 57, 78-85).
\* dirtySet, the tracked pointer cell and lastFrame are not touched.
buildGrid(w, h) ==
  LET nc == Ceil(w, CELL_SIZE) + 1
      nr == Ceil(h, CELL_SIZE) + 1
  IN  /\ cols' = nc
      /\ rows' = nr
      /\ \E syms \in [Cells(nr, nc) -> randSymbols] :
           grid' = [rc \in Cells(nr, nc) |-> NewCell(syms[rc])]
      /\ drawn' = [rc \in Cells(nr, nc) |-> drawCell(grid'[rc])]
      /\ redrawn' = Cells(nr, nc)

----------------------------------------------------------------------------
(* Pointer tracking (lines 88-120)                                         *)

Block_Wide(r, c) ==
  { rc \in Cells(rows, cols) :
      /\ rc[1] - r \in {-2, -1, 0, 1, 2}
      /\ rc[2] - c \in {-2, -1, 0, 1, 2} }

\* the in-grid cells of the 3x3 block around (r, c) (lines 100-104)
Block(r, c) ==
  { rc \in Cells(rows, cols) :
      /\ rc[1] - r \in {-1, 0, 1}
      /\ rc[2] - c \in {-1, 0, 1} }

Armed_AnyState(r, c) == Block(r, c)

\* the cells onMouseMove arms: only idle ones (line 106)
Armed(r, c) == { rc \in Block(r, c) : grid[rc].state = "idle" }

ArmedKeys_None(r, c) == {}

\* the keys onMouseMove adds to dirtySet (line 110)
ArmedKeys(r, c) == { key(rc[1], rc[2]) : rc \in Armed(r, c) }

\* lines 107-109 for one cell, jit = Math.floor(Math.random() * 3)
ArmCell(cell, jit) ==
  [cell EXCEPT !.state = "scramble",
               !.origSymbol = cell.symbol,
               !.framesLeft = SCRAMBLE_FRAMES + jit]

SameCell_Never(newRow, newCol) == FALSE

\* the test of line 95
SameCell(newRow, newCol) == newCol = mouseCol /\ newRow = mouseRow

onMouseMove(mx, my) ==
  LET newCol == mx \div CELL_SIZE
      newRow == my \div CELL_SIZE
  IN  /\ op' = "mousemove"
      /\ IF SameCell(newRow, newCol)
         THEN UNCHANGED <<mouseRow, mouseCol, grid, dirtySet>>
         ELSE /\ mouseCol' = newCol
              /\ mouseRow' = newRow
              /\ \E jit \in [Armed(newRow, newCol) -> RandomJitters] :
                   grid' = [rc \in DOMAIN grid |->
                              IF rc \in Armed(newRow, newCol)
                              THEN ArmCell(grid[rc], jit[rc])
                              ELSE grid[rc]]
              /\ dirtySet' = dirtySet \cup ArmedKeys(newRow, newCol)
      /\ redrawn' = {}
      /\ UNCHANGED <<rows, cols, lastFrame, resizeTimer, timers, toRemove,
                     read, drawn, clock>>

onMouseLeave_ColumnOnly ==
  /\ mouseCol' = -1
  /\ op' = "mouseleave"
  /\ redrawn' = {}
  /\ UNCHANGED <<rows, cols, grid, dirtySet, mouseRow, lastFrame, resizeTimer,
                 timers, toRemove, read, drawn, clock>>

onMouseLeave ==
  /\ mouseCol' = -1
  /\ mouseRow' = -1
  /\ op' = "mouseleave"
  /\ redrawn' = {}
  /\ UNCHANGED <<rows, cols, grid, dirtySet, lastFrame, resizeTimer, timers,
                 toRemove, read, drawn, clock>>

----------------------------------------------------------------------------
(* Animation loop (lines 126-176)                                          *)

Stale_RowsOnly(k) == keyRow(k) >= rows

\* a dirty key that animate drops without reading the grid (line 142)
Stale(k) == keyRow(k) >= rows \/ keyCol(k) >= cols

\* grid[r][c] of line 143: outside the grid the read yields undefined, and
\* the test of its state at line 145 throws a TypeError
CellAt(rc) == IF rc \in DOMAIN grid THEN grid[rc] ELSE [state |-> "undefined"]

ScrambleTick_LateSettle(cell, now, sym) ==
  IF cell.framesLeft - 1 < 0
  THEN [cell EXCEPT !.symbol = cell.origSymbol,
                    !.color = HOVER_COLOR,
                    !.framesLeft = cell.framesLeft - 1,
                    !.state = "settling",
                    !.settleStart = now]
  ELSE [cell EXCEPT !.symbol = sym,
                    !.color = HOVER_COLOR,
                    !.framesLeft = cell.framesLeft - 1]

ScrambleTick_NoSettleStart(cell, now, sym) ==
  IF cell.framesLeft - 1 <= 0
  THEN [cell EXCEPT !.symbol = cell.origSymbol,
                    !.color = HOVER_COLOR,
                    !.framesLeft = cell.framesLeft - 1,
                    !.state = "settling"]
  ELSE [cell EXCEPT !.symbol = sym,
                    !.color = HOVER_COLOR,
                    !.framesLeft = cell.framesLeft - 1]

ScrambleTick_NoRestore(cell, now, sym) ==
  IF cell.framesLeft - 1 <= 0
  THEN [cell EXCEPT !.symbol = sym,
                    !.color = HOVER_COLOR,
                    !.framesLeft = cell.framesLeft - 1,
                    !.state = "settling",
                    !.settleStart = now]
  ELSE [cell EXCEPT !.symbol = sym,
                    !.color = HOVER_COLOR,
                    !.framesLeft = cell.framesLeft - 1]

ScrambleTick_NoCountdown(cell, now, sym) ==
  [cell EXCEPT !.symbol = sym, !.color = HOVER_COLOR]

\* one scramble tick of a scrambling cell (lines 147-155); sym is the glyph
\* randSymbol() returns
ScrambleTick(cell, now, sym) ==
  IF cell.framesLeft - 1 <= 0
  THEN [cell EXCEPT !.symbol = cell.origSymbol,
                    !.color = HOVER_COLOR,
                    !.framesLeft = cell.framesLeft - 1,
                    !.state = "settling",
                    !.settleStart = now]
  ELSE [cell EXCEPT !.symbol = sym,
                    !.color = HOVER_COLOR,
                    !.framesLeft = cell.framesLeft - 1]

\* the colour line 166 computes from t = ms / SETTLE_DURATION, for every
\* whole number of milliseconds up to SETTLE_DURATION
FadeColor ==
  [ ms \in 0 .. SETTLE_DURATION |->
      lerpColor(HOVER_COLOR, BASE_COLOR,
                easeOutCubic(Frac(ms, SETTLE_DURATION))) ]

\* t of lines 159-160: Math.min(elapsed / SETTLE_DURATION, 1)
SettleFraction(cell, now) ==
  MinOne(Frac(now - cell.settleStart, SETTLE_DURATION))

SettleDone_Strict(t) == t.num > t.den

\* t >= 1 (line 164)
SettleDone(t) == t.num >= t.den

SettleStep_KeepsOrig(cell, now) ==
  LET t == SettleFraction(cell, now)
  IN  IF SettleDone(t)
      THEN [cell EXCEPT !.state = "idle", !.color = BASE_COLOR]
      ELSE [cell EXCEPT !.color =
               FadeColor[(t.num * SETTLE_DURATION) \div t.den]]

\* one frame of a settling cell (lines 159-169)
SettleStep(cell, now) ==
  LET t == SettleFraction(cell, now)
  IN  IF SettleDone(t)
      THEN [cell EXCEPT !.state = "idle",
                        !.color = BASE_COLOR,
                        !.origSymbol = NULL]
      ELSE [cell EXCEPT !.color =
               FadeColor[(t.num * SETTLE_DURATION) \div t.den]]

\* the cell record as it is when drawCell is called for it (lines 156, 163)
AtDraw(cell, now, sym) ==
  IF cell.state = "scramble"
  THEN ScrambleTick(cell, now, sym)
  ELSE LET t == SettleFraction(cell, now)
       IN  [cell EXCEPT !.color =
              FadeColor[(t.num * SETTLE_DURATION) \div t.den]]

Redrawn_SettlingOnly(cell, doScrambleTick) == cell.state = "settling"

\* whether animate calls drawCell for an in-grid dirty cell (lines 156, 163)
Redrawn(cell, doScrambleTick) ==
  \/ cell.state = "scramble" /\ doScrambleTick
  \/ cell.state = "settling"

StepCell_Unthrottled(cell, now, doScrambleTick, sym) ==
  IF cell.state = "scramble" THEN ScrambleTick(cell, now, sym)
  ELSE IF cell.state = "settling" THEN SettleStep(cell, now)
  ELSE cell

\* lines 145-172 for one in-grid dirty cell
StepCell(cell, now, doScrambleTick, sym) ==
  IF cell.state = "scramble" THEN
    IF doScrambleTick THEN ScrambleTick(cell, now, sym) ELSE cell
  ELSE IF cell.state = "settling" THEN SettleStep(cell, now)
  ELSE cell

Removed_Always(cell, now) == TRUE

Removed_SettledOnly(cell, now) ==
  /\ cell.state = "settling"
  /\ SettleDone(SettleFraction(cell, now))

\* whether animate pushes the key of an in-grid cell to toRemove
\* (lines 164-172), given the cell before the call
Removed(cell, now) ==
  \/ /\ cell.state = "settling"
     /\ SettleDone(SettleFraction(cell, now))
  \/ cell.state \notin {"scramble", "settling"}

animate(now) ==
  LET doScrambleTick == now - lastFrame >= FRAME_INTERVAL
      live == { k \in dirtySet : ~Stale(k) }
      liveCells == { <<keyRow(k), keyCol(k)>> : k \in live }
      removals == { k \in dirtySet :
                      \/ Stale(k)
                      \/ Removed(CellAt(<<keyRow(k), keyCol(k)>>), now) }
      painted == { rc \in liveCells \cap DOMAIN grid :
                     Redrawn(grid[rc], doScrambleTick) }
  IN  /\ lastFrame' = IF doScrambleTick THEN now ELSE lastFrame
      /\ \E sym \in [liveCells -> randSymbols] :
           /\ grid' = [rc \in DOMAIN grid |->
                         IF rc \in liveCells
                         THEN StepCell(grid[rc], now, doScrambleTick, sym[rc])
                         ELSE grid[rc]]
           /\ drawn' = [rc \in DOMAIN drawn |->
                          IF rc \in painted
                          THEN drawCell(AtDraw(grid[rc], now, sym[rc]))
                          ELSE drawn[rc]]
      /\ redrawn' = painted
      /\ read' = liveCells
      /\ toRemove' = removals
      /\ dirtySet' = dirtySet \ removals
      /\ clock' = now
      /\ op' = "animate"
      /\ UNCHANGED <<rows, cols, mouseRow, mouseCol, resizeTimer, timers>>

----------------------------------------------------------------------------
(* Resize (lines 201-205)                                                  *)

clearTimeout_Missing(handle) == timers

\* clearTimeout(handle): the pending timeouts that remain (line 203)
clearTimeout(handle) == timers \ {handle}

\* the resize listener: clearTimeout, then setTimeout(buildGrid, 150)
onResize ==
  /\ resizeTimer' = clock + RESIZE_DELAY
  /\ timers' = clearTimeout(resizeTimer) \cup {clock + RESIZE_DELAY}
  /\ op' = "resize"
  /\ redrawn' = {}
  /\ UNCHANGED <<rows, cols, grid, dirtySet, mouseRow, mouseCol, lastFrame,
                 toRemove, read, drawn, clock>>

\* a pending timeout fires, once it is due, and runs buildGrid
TimerFires(w, h) ==
  \E due \in timers :
    /\ clock >= due
    /\ timers' = timers \ {due}
    /\ buildGrid(w, h)
    /\ op' = "buildGrid"
    /\ UNCHANGED <<dirtySet, mouseRow, mouseCol, lastFrame, resizeTimer,
                   toRemove, read, clock>>

----------------------------------------------------------------------------
(* The state machine                                                       *)

\* the state after lines 18-23, 126 and the buildGrid() call of line 208
Init ==
  /\ \E wh \in ClientSizes :
       /\ cols = Ceil(wh[1], CELL_SIZE) + 1
       /\ rows = Ceil(wh[2], CELL_SIZE) + 1
  /\ \E syms \in [Cells(rows, cols) -> randSymbols] :
       grid = [rc \in Cells(rows, cols) |-> NewCell(syms[rc])]
  /\ dirtySet = {}
  /\ mouseCol = -1
  /\ mouseRow = -1
  /\ lastFrame = 0
  /\ resizeTimer = 0
  /\ timers = {}
  /\ toRemove = {}
  /\ read = {}
  /\ drawn = [rc \in Cells(rows, cols) |-> drawCell(grid[rc])]
  /\ redrawn = Cells(rows, cols)
  /\ clock = 0
  /\ op = "init"

MouseMove ==
  /\ clock \in EventTimes
  /\ \E p \in PointerOffsets : onMouseMove(p[1], p[2])

MouseLeave == clock \in EventTimes /\ onMouseLeave

\* a frame at most `limit` ms after the start
FrameUntil(limit) ==
  \E dt \in FrameDeltas : clock + dt <= limit /\ animate(clock + dt)

LateFrameUntil(limit) ==
  /\ clock \in LateFrameTimes
  /\ \E dt \in LateFrameDeltas : clock + dt <= limit /\ animate(clock + dt)

Frame == FrameUntil(MaxClock)

LateFrame == LateFrameUntil(MaxClock)

Resize == clock \in EventTimes /\ onResize

Rebuild == \E wh \in ClientSizes : TimerFires(wh[1], wh[2])

Next == MouseMove \/ MouseLeave \/ Frame \/ LateFrame \/ Resize \/ Rebuild

Spec == Init /\ [][Next]_vars

----------------------------------------------------------------------------
(* Frames that keep coming: animate re-registers itself with               *)
(* requestAnimationFrame at every call (line 130), so a frame that can run *)
(* does run.  Pointer events stop at ArmDeadline, early enough for the     *)
(* frames up to LiveMaxClock to finish every animation; the rebuild that a *)
(* resize event schedules comes at any time once it is due.                *)

LiveMouseMove == clock <= ArmDeadline /\ MouseMove

LiveMouseLeave == clock <= ArmDeadline /\ MouseLeave

LiveResize == clock <= LiveResizeDeadline /\ Resize

LiveFrame ==
  \E dt \in LiveFrameDeltas :
    clock + dt <= LiveMaxClock /\ animate(clock + dt)

LiveNext ==
  \/ LiveMouseMove \/ LiveMouseLeave \/ LiveFrame
  \/ LiveResize \/ Rebuild

LiveSpec == Init /\ [][LiveNext]_vars /\ WF_vars(LiveFrame)

----------------------------------------------------------------------------
(* Bursts of resize events: after the first event of a burst, a resize     *)
(* event arrives only while the timeout of the previous one is pending and *)
(* not yet due.  A timeout that is due does fire, and frames keep coming.  *)

BurstResize ==
  /\ clock \in ResizeTimes
  /\ clock \in BurstStarts \/ (timers # {} /\ clock < resizeTimer)
  /\ onResize

ResizeFrame ==
  \E dt \in LiveFrameDeltas :
    clock + dt <= ResizeMaxClock /\ animate(clock + dt)

ResizeNext == BurstResize \/ ResizeFrame \/ Rebuild

SpecResize ==
  Init /\ [][ResizeNext]_vars /\ WF_vars(ResizeFrame) /\ WF_vars(Rebuild)

----------------------------------------------------------------------------
(* The fade of one cell, frame by frame.  FadeInit is the state of Spec in *)
(* which the pointer has armed cell (0, 1) of a 1x2 grid at time 0 (offset *)
(* <<50, 5>>, jitter 0) and frames of 25 ms have taken it to Settling at   *)
(* time 300; from there the frames come at millisecond steps.              *)

FadeInit ==
  /\ cols = Ceil(22, CELL_SIZE) + 1
  /\ rows = Ceil(0, CELL_SIZE) + 1
  /\ grid = [rc \in Cells(rows, cols) |->
              IF rc = <<0, 1>>
              THEN [ symbol |-> SYMBOLS[1], origSymbol |-> SYMBOLS[1],
                     color |-> HOVER_COLOR, state |-> "settling",
                     framesLeft |-> 0, settleStart |-> 300 ]
              ELSE NewCell(SYMBOLS[1])]
  /\ dirtySet = {key(0, 1)}
  /\ mouseCol = 50 \div CELL_SIZE
  /\ mouseRow = 5 \div CELL_SIZE
  /\ lastFrame = 300
  /\ resizeTimer = 0
  /\ timers = {}
  /\ toRemove = {}
  /\ read = {<<0, 1>>}
  /\ drawn = [rc \in Cells(rows, cols) |-> drawCell(grid[rc])]
  /\ redrawn = {<<0, 1>>}
  /\ clock = 300
  /\ op = "animate"

FineFrame ==
  \E dt \in FineFrameDeltas : clock + dt <= FadeMaxClock /\ animate(clock + dt)

FadeNext == FineFrame

SpecFade == FadeInit /\ [][FadeNext]_vars

----------------------------------------------------------------------------
(* Vocabulary of the properties                                            *)

CellKey(rc) == rc[1] * 10000 + rc[2]

InGrid(rc) == rc \in DOMAIN grid

IsIdle(rc) == grid[rc].state = "idle"

IsScrambling(rc) == grid[rc].state = "scramble"

IsSettling(rc) == grid[rc].state = "settling"

\* a cell armed by onMouseMove that no scramble tick has touched yet
FreshlyArmed(rc) ==
  /\ IsScrambling(rc)
  /\ grid[rc].framesLeft >= SCRAMBLE_FRAMES
  /\ grid[rc].color = BASE_COLOR

\* (r, c) lies in the 3x3 block centred on (r0, c0)
Near(rc, r0, c0) ==
  /\ rc[1] >= r0 - 1 /\ rc[1] <= r0 + 1
  /\ rc[2] >= c0 - 1 /\ rc[2] <= c0 + 1

----------------------------------------------------------------------------
(* C1 *)

\* C1: at the end of every animate() call, a cell of the current grid is
\* idle if and only if its key is not in dirtySet, whatever pointer moves,
\* pointer leaves, rebuilds and earlier frames came before.
C1_IdleIffNotDirty ==
  op = "animate" =>
    \A rc \in Cells(rows, cols) :
      (grid[rc].state = "idle") <=> (CellKey(rc) \notin dirtySet)

\* an animate() call that dropped a key left over by a rebuild while a cell
\* armed after the rebuild keeps scrambling
C1_Witness ==
  /\ op = "animate"
  /\ \E k \in toRemove : k \div 10000 >= rows \/ k % 10000 >= cols
  /\ \E rc \in Cells(rows, cols) :
       IsScrambling(rc) /\ CellKey(rc) \in dirtySet

----------------------------------------------------------------------------
(* C2 *)

\* C2 as stated: right after buildGrid returns the Dirty Set is empty and
\* every cell is Idle.
C2_RebuildClearsDirtySet ==
  op = "buildGrid" =>
    /\ dirtySet = {}
    /\ \A rc \in Cells(rows, cols) : IsIdle(rc)

\* C2, amended: buildGrid resets every cell to Idle and leaves the Dirty Set
\* as it was; the animate() calls drop the left-over keys: a key survives an
\* animate() call only if it is the key of an in-grid cell that was
\* Scrambling or Settling when the call began.
C2_RebuildKeepsDirtySet ==
  [][ /\ op' = "buildGrid" =>
           /\ dirtySet' = dirtySet
           /\ \A rc \in Cells(rows', cols') :
                /\ grid'[rc].state = "idle"
                /\ grid'[rc].origSymbol = NULL
                /\ grid'[rc].color = BASE_COLOR
      /\ op' = "animate" =>
           \A k \in dirtySet' :
             /\ k \in dirtySet
             /\ k \div 10000 < rows /\ k % 10000 < cols
             /\ grid[<<k \div 10000, k % 10000>>].state # "idle"
    ]_vars

\* a rebuild that ran while cells were animating: their keys are still in
\* the Dirty Set, one of them out of the new grid
C2_Witness ==
  /\ op = "buildGrid"
  /\ \E k \in dirtySet : k \div 10000 >= rows \/ k % 10000 >= cols
  /\ \E k \in dirtySet : k \div 10000 < rows /\ k % 10000 < cols

----------------------------------------------------------------------------
(* C3 *)

\* C3: in every reachable state, a cell's origSymbol is non-null exactly
\* when the cell is Scrambling or Settling.
C3_OrigSymbolIffAnimating ==
  \A rc \in Cells(rows, cols) :
    (grid[rc].origSymbol # NULL) <=> (grid[rc].state \in {"scramble", "settling"})

\* one cell has finished a whole cycle (idle again, settleStart set) while
\* another is still animating
C3_Witness ==
  /\ \E rc \in Cells(rows, cols) :
       IsIdle(rc) /\ grid[rc].settleStart > 0 /\ grid[rc].origSymbol = NULL
  /\ \E rc \in Cells(rows, cols) :
       IsSettling(rc) /\ grid[rc].origSymbol \in randSymbols

----------------------------------------------------------------------------
(* C4 *)

\* C4: a pointer move leaves every cell that is already Scrambling or
\* Settling as it is (state, symbol, origSymbol, color, framesLeft,
\* settleStart); the cells it changes were Idle.
C4_NoRearm ==
  [][ op' = "mousemove" =>
        \A rc \in Cells(rows, cols) :
          grid[rc].state # "idle" => grid'[rc] = grid[rc]
    ]_vars

\* a pointer move armed an idle cell of a block that also holds a Settling
\* cell and is centred on an in-grid cell
C4_Witness ==
  /\ op = "mousemove"
  /\ \E rc \in Cells(rows, cols) :
       Near(rc, mouseRow, mouseCol) /\ IsSettling(rc) /\ grid[rc].settleStart < clock
  /\ \E rc \in Cells(rows, cols) :
       Near(rc, mouseRow, mouseCol) /\ FreshlyArmed(rc)

----------------------------------------------------------------------------
(* C5 *)

\* C5: a Scrambling cell with framesLeft = n >= 1 loses one frame in every
\* animate() call whose scramble tick fires and becomes Settling in the call
\* that takes n from 1 to 0, not before; an animate() call without scramble
\* tick, a pointer event and a resize event leave its state and framesLeft
\* as they are.  Every Scrambling cell has framesLeft >= 1.
C5_ScrambleCountdown ==
  [][ \A rc \in Cells(rows, cols) :
        (IsScrambling(rc) /\ op' # "buildGrid") =>
          LET n == grid[rc].framesLeft
              ticked == op' = "animate" /\ clock' - lastFrame >= 50
          IN  /\ n >= 1
              /\ ticked =>
                   /\ grid'[rc].framesLeft = n - 1
                   /\ grid'[rc].state = IF n = 1 THEN "settling" ELSE "scramble"
              /\ ~ticked =>
                   /\ grid'[rc].framesLeft = n
                   /\ grid'[rc].state = "scramble"
    ]_vars

\* an animate() call without scramble tick has left a cell Scrambling with
\* one frame to go
C5_Witness ==
  /\ op = "animate"
  /\ lastFrame < clock
  /\ \E rc \in Cells(rows, cols) :
       /\ IsScrambling(rc)
       /\ grid[rc].framesLeft = 1
       /\ grid[rc].color = HOVER_COLOR

----------------------------------------------------------------------------
(* C6 *)

\* C6: the animate(now) call whose scramble tick is due takes a Scrambling
\* cell with framesLeft = 1 to Settling with settleStart = now, and the
\* cell's key is still in the Dirty Set after the call.
C6_SettleStartIsNow ==
  [][ (op' = "animate" /\ clock' - lastFrame >= 50) =>
        \A rc \in Cells(rows, cols) :
          (IsScrambling(rc) /\ grid[rc].framesLeft = 1) =>
            /\ grid'[rc].state = "settling"
            /\ grid'[rc].settleStart = clock'
            /\ CellKey(rc) \in dirtySet'
            /\ CellKey(rc) \notin toRemove'
    ]_vars

\* a cell that this animate() call has just taken to Settling
C6_Witness ==
  /\ op = "animate"
  /\ lastFrame = clock
  /\ \E rc \in Cells(rows, cols) :
       /\ IsSettling(rc)
       /\ grid[rc].settleStart = clock
       /\ grid[rc].framesLeft = 0
       /\ CellKey(rc) \in dirtySet

----------------------------------------------------------------------------
(* C7 *)

\* C7: an animate(now) call takes a Settling cell to Idle, with color
\* BASE_COLOR, origSymbol null and its key out of the Dirty Set, if
\* now - settleStart >= SETTLE_DURATION, and leaves it Settling and in the
\* Dirty Set otherwise; so no frame leaves a cell Settling once
\* SETTLE_DURATION has elapsed since settleStart.
C7_SettleEndsAtDuration ==
  [][ /\ op' = "animate" =>
           \A rc \in Cells(rows, cols) :
             IsSettling(rc) =>
               IF clock' - grid[rc].settleStart >= 400
               THEN /\ grid'[rc].state = "idle"
                    /\ grid'[rc].color = BASE_COLOR
                    /\ grid'[rc].origSymbol = NULL
                    /\ CellKey(rc) \notin dirtySet'
               ELSE /\ grid'[rc].state = "settling"
                    /\ CellKey(rc) \in dirtySet'
      /\ \A rc \in Cells(rows', cols') :
           grid'[rc].state = "settling" =>
             clock' - grid'[rc].settleStart < 400
    ]_vars

\* a late frame has ended a fade: the first call with
\* now - settleStart >= SETTLE_DURATION came after more than SETTLE_DURATION
C7_Witness ==
  /\ op = "animate"
  /\ \E rc \in Cells(rows, cols) :
       /\ IsIdle(rc)
       /\ CellKey(rc) \in toRemove
       /\ grid[rc].settleStart > 0
       /\ clock - grid[rc].settleStart > 400
       /\ grid[rc].color = BASE_COLOR
       /\ grid[rc].origSymbol = NULL

----------------------------------------------------------------------------
(* C8 *)

\* the three colour channels of a colour string
Channels(color) ==
  << 16 * color[2] + color[3], 16 * color[4] + color[5],
     16 * color[6] + color[7] >>

\* C8 as stated: in an animate() call no colour channel of a Settling cell
\* decreases, every channel stays within 0x88 .. 0xe0, and the colour is
\* BASE_COLOR exactly when the clamped fraction is 1, that is, if and only
\* if now - settleStart >= SETTLE_DURATION.
C8_FadeExactlyAtOne ==
  [][ op' = "animate" =>
        \A rc \in Cells(rows, cols) :
          IsSettling(rc) =>
            /\ \A ch \in 1 .. 3 :
                 /\ Channels(grid'[rc].color)[ch] >= Channels(grid[rc].color)[ch]
                 /\ Channels(grid'[rc].color)[ch] \in 136 .. 224
            /\ (grid'[rc].color = BASE_COLOR) <=>
                 (clock' - grid[rc].settleStart >= 400)
    ]_vars

\* C8, amended: in an animate() call no colour channel of a Settling cell
\* decreases, every channel stays within 0x88 .. 0xe0, and the colour is
\* BASE_COLOR whenever the clamped fraction is 1; the rounding of the
\* channels makes it BASE_COLOR earlier too, but never before 328 ms of the
\* 400 have elapsed.
C8_FadeMonotone ==
  [][ op' = "animate" =>
        \A rc \in Cells(rows, cols) :
          IsSettling(rc) =>
            /\ \A ch \in 1 .. 3 :
                 /\ Channels(grid'[rc].color)[ch] >= Channels(grid[rc].color)[ch]
                 /\ Channels(grid'[rc].color)[ch] \in 136 .. 224
            /\ (clock' - grid[rc].settleStart >= 400) =>
                 grid'[rc].color = BASE_COLOR
            /\ (grid'[rc].color = BASE_COLOR) =>
                 (clock' - grid[rc].settleStart >= 328)
    ]_vars

\* a cell that is still Settling, with a fraction below 1, and already has
\* the colour BASE_COLOR
C8_Witness ==
  /\ op = "animate"
  /\ \E rc \in Cells(rows, cols) :
       /\ IsSettling(rc)
       /\ clock - grid[rc].settleStart < 400
       /\ grid[rc].color = BASE_COLOR

----------------------------------------------------------------------------
(* C9 *)

----------------------------------------------------------------------------
(* C10 *)

\* the cells of every grid that buildGrid can build
AllCells ==
  UNION { Cells(Ceil(wh[2], CELL_SIZE) + 1, Ceil(wh[1], CELL_SIZE) + 1) :
            wh \in ClientSizes }

Animating(rc) == InGrid(rc) /\ ~IsIdle(rc)

\* C10: with frames that keep coming, every cell is again and again Idle
\* (or gone with its grid), so that a cell that is Scrambling or Settling is
\* eventually Idle again, whatever the pointer does; and a cell leaves
\* Scrambling or Settling for Idle only in the animate() call that ends its
\* fade or in a grid rebuild.
C10_EventuallyIdle ==
  /\ \A rc \in AllCells : []<>~Animating(rc)
  /\ [][ \A rc \in AllCells :
           (Animating(rc) /\ ~Animating(rc)') =>
             \/ op' = "buildGrid"
             \/ /\ op' = "animate"
                /\ IsSettling(rc)
                /\ clock' - grid[rc].settleStart >= SETTLE_DURATION
       ]_vars

\* a cell has run its whole cycle and is Idle again after the pointer left
\* while it was animating
C10_Witness ==
  /\ op = "animate"
  /\ mouseRow = -1
  /\ mouseCol = -1
  /\ \E rc \in Cells(rows, cols) :
       /\ IsIdle(rc)
       /\ CellKey(rc) \in toRemove
       /\ grid[rc].settleStart > 350

----------------------------------------------------------------------------
(* C11 *)

\* C11: at most one rebuild timeout is pending at any time; a resize event
\* leaves exactly the timeout it schedules, due RESIZE_DELAY later; buildGrid
\* runs only from the timeout of the latest resize event, no earlier than
\* RESIZE_DELAY after that event, and leaves no timeout pending, so a burst
\* of resize events causes one buildGrid call; and that call does come.
C11_Debounce ==
  /\ [](Cardinality(timers) <= 1)
  /\ [][ resizeTimer' # resizeTimer => timers' = {clock + RESIZE_DELAY} ]_vars
  /\ [][ op' = "buildGrid" =>
           /\ timers = {resizeTimer}
           /\ clock >= resizeTimer
           /\ timers' = {} ]_vars
  /\ []<>(timers = {})

\* the rebuild after the burst of resize events at 0, 100 and 200 ms: the
\* first one it causes, as the grid's timeout was due at 350 ms only
C11_Witness ==
  /\ op = "buildGrid"
  /\ resizeTimer = 350
  /\ timers = {}
  /\ clock >= 350

----------------------------------------------------------------------------
(* C12 *)

\* C12: in every reachable state every cell whose state is 'scramble' has
\* color HOVER_COLOR, also between its activation by onMouseMove and its
\* first scramble tick.
C12_ScramblingIsHover ==
  \A rc \in Cells(rows, cols) :
    IsScrambling(rc) => grid[rc].color = HOVER_COLOR

----------------------------------------------------------------------------
(* C13 *)

\* C13: in every reachable state, also between a grid rebuild and the next
\* animate() call, every cell of the current grid that is not Idle has its
\* key in the Dirty Set; and every animate() call reads every cell that is
\* not Idle when it is called.
C13_NonIdleIsDirty ==
  /\ [](\A rc \in Cells(rows, cols) : ~IsIdle(rc) => CellKey(rc) \in dirtySet)
  /\ [][ op' = "animate" =>
           \A rc \in Cells(rows, cols) : ~IsIdle(rc) => rc \in read' ]_vars

\* between a rebuild and the next animate() call: the Dirty Set still holds
\* a key of the old grid, and the pointer has armed a cell of the new one
C13_Witness ==
  /\ op = "mousemove"
  /\ \E k \in dirtySet : k \div 10000 >= rows \/ k % 10000 >= cols
  /\ \E rc \in Cells(rows, cols) :
       IsScrambling(rc) /\ CellKey(rc) \in dirtySet

----------------------------------------------------------------------------
(* C14 *)

\* C14: a Scrambling cell is changed and redrawn only by animate(now) calls
\* with now - lastFrame >= FRAME_INTERVAL, which take one frame from it;
\* such a call sets lastFrame to now and the others leave it, so two of them
\* in a row are at least FRAME_INTERVAL apart; and every animate() call,
\* throttled or not, recomputes the color of every Settling cell and redraws
\* it with that color.
C14_ScrambleThrottled ==
  [][ /\ op' = "animate" =>
           LET tick == clock' - lastFrame >= FRAME_INTERVAL
           IN  /\ lastFrame' = IF tick THEN clock' ELSE lastFrame
               /\ tick => lastFrame' - lastFrame >= 50
               /\ \A rc \in Cells(rows, cols) :
                    /\ (IsScrambling(rc) /\ ~tick) =>
                         grid'[rc] = grid[rc] /\ rc \notin redrawn'
                    /\ (IsScrambling(rc) /\ tick) =>
                         /\ grid'[rc].framesLeft = grid[rc].framesLeft - 1
                         /\ rc \in redrawn'
                    /\ IsSettling(rc) =>
                         /\ rc \in redrawn'
                         /\ drawn'[rc][1] = grid[rc].symbol
                         /\ drawn'[rc][2] =
                              FadeColor[IF clock' - grid[rc].settleStart >= 400
                                        THEN 400
                                        ELSE clock' - grid[rc].settleStart]
                         /\ IsSettling(rc)' => grid'[rc].color = drawn'[rc][2]
      /\ op' \in {"mousemove", "mouseleave", "resize"} =>
           \A rc \in Cells(rows, cols) :
             IsScrambling(rc) => grid'[rc] = grid[rc]
    ]_vars

\* an animate() call without scramble tick: a Scrambling cell was left alone
\* and a Settling cell was redrawn in a colour between hover and base tone
C14_Witness ==
  /\ op = "animate"
  /\ lastFrame < clock
  /\ \E rc \in Cells(rows, cols) : IsScrambling(rc) /\ rc \notin redrawn
  /\ \E rc \in Cells(rows, cols) :
       /\ IsSettling(rc)
       /\ rc \in redrawn
       /\ grid[rc].color \notin {HOVER_COLOR, BASE_COLOR}

----------------------------------------------------------------------------
(* C15 *)

\* C15: an animate() call removes from the Dirty Set every key whose decoded
\* row is >= rows or whose decoded column is >= cols, without reading the
\* grid at those coordinates; and every grid[r][c] it reads has
\* 0 <= r < rows and 0 <= c < cols, so that no read yields undefined and no
\* TypeError is thrown.
C15_StaleKeysDropped ==
  [][ op' = "animate" =>
        /\ \A k \in dirtySet :
             (k \div 10000 >= rows \/ k % 10000 >= cols) =>
               /\ k \in toRemove'
               /\ k \notin dirtySet'
               /\ << k \div 10000, k % 10000 >> \notin read'
        /\ \A rc \in read' :
             /\ 0 <= rc[1] /\ rc[1] < rows
             /\ 0 <= rc[2] /\ rc[2] < cols
    ]_vars

\* an animate() call has dropped a key whose row exists in the grid and
\* whose column does not, while it read another cell
C15_Witness ==
  /\ op = "animate"
  /\ \E k \in toRemove :
       /\ k \div 10000 < rows
       /\ k % 10000 >= cols
       /\ k \notin dirtySet
  /\ read # {}

----------------------------------------------------------------------------
(* C16 *)

\* C16: a pointer move that maps to the tracked cell changes no cell, leaves
\* the Dirty Set, the tracked cell and the canvas as they are, even when
\* cells around the pointer are Idle again and could be armed.
C16_SameCellIsNoOp ==
  [][ (op' = "mousemove" /\ mouseRow' = mouseRow /\ mouseCol' = mouseCol) =>
        /\ grid' = grid
        /\ dirtySet' = dirtySet
        /\ drawn' = drawn
    ]_vars

\* a pointer move within the tracked cell, after the cell has run its whole
\* cycle and is Idle again: a pointer move to a new cell would have armed it
C16_Witness ==
  /\ op = "mousemove"
  /\ <<mouseRow, mouseCol>> \in Cells(rows, cols)
  /\ IsIdle(<<mouseRow, mouseCol>>)
  /\ grid[<<mouseRow, mouseCol>>].settleStart > 0
  /\ CellKey(<<mouseRow, mouseCol>>) \notin dirtySet

----------------------------------------------------------------------------
(* C17 *)

\* C17: a pointer leave sets the tracked cell to (-1, -1) and changes nothing
\* else: cells, Dirty Set, canvas, timers and lastFrame stay as they are;
\* and the pointer move that follows it into a cell of the grid, whichever
\* cell was tracked before, tracks that cell and arms every Idle cell of the
\* grid within one row and one column of it.
C17_LeaveOnlyResetsTracking ==
  [][ /\ op' = "mouseleave" =>
           /\ mouseRow' = -1
           /\ mouseCol' = -1
           /\ UNCHANGED <<rows, cols, grid, dirtySet, drawn, lastFrame,
                          resizeTimer, timers, clock>>
      /\ ( /\ op' = "mousemove"
           /\ mouseRow = -1
           /\ mouseCol = -1
           /\ <<mouseRow', mouseCol'>> \in Cells(rows, cols) ) =>
           \A rc \in Cells(rows, cols) :
             (IsIdle(rc) /\ Near(rc, mouseRow', mouseCol')) =>
               /\ grid'[rc].state = "scramble"
               /\ CellKey(rc) \in dirtySet'
    ]_vars

\* the pointer has left while a cell was in the middle of its fade, and the
\* cell is still Settling with its key in the Dirty Set
C17_Witness ==
  /\ op = "mouseleave"
  /\ mouseRow = -1
  /\ mouseCol = -1
  /\ \E rc \in Cells(rows, cols) :
       /\ IsSettling(rc)
       /\ grid[rc].color \notin {HOVER_COLOR, BASE_COLOR}
       /\ CellKey(rc) \in dirtySet

----------------------------------------------------------------------------
(* C18 *)

\* C18: activation stores the symbol the cell shows in origSymbol and keeps
\* the symbol; origSymbol does not change while the cell is Scrambling or
\* Settling; the symbol of a Settling cell is its origSymbol; and the cell
\* returns to Idle with that symbol: unless a rebuild replaces the cell, the
\* glyph it showed when it was activated is the glyph it shows from the
\* start of its fade on, whatever glyphs the scramble drew.
C18_GlyphRestored ==
  [][ op' # "buildGrid" =>
        \A rc \in Cells(rows, cols) :
          /\ (IsIdle(rc) /\ ~IsIdle(rc)') =>
               /\ grid'[rc].origSymbol = grid[rc].symbol
               /\ grid'[rc].symbol = grid[rc].symbol
          /\ (~IsIdle(rc) /\ ~IsIdle(rc)') =>
               grid'[rc].origSymbol = grid[rc].origSymbol
          /\ IsSettling(rc)' => grid'[rc].symbol = grid'[rc].origSymbol
          /\ (~IsIdle(rc) /\ IsIdle(rc)') =>
               /\ IsSettling(rc)
               /\ grid'[rc].symbol = grid[rc].origSymbol
    ]_vars

\* a cell has just returned to Idle while another one, armed later, is
\* Scrambling and shows a glyph that is not its own
C18_Witness ==
  /\ op = "animate"
  /\ \E rc \in Cells(rows, cols) :
       /\ IsIdle(rc)
       /\ CellKey(rc) \in toRemove
       /\ grid[rc].settleStart > 0
  /\ \E rc \in Cells(rows, cols) :
       /\ IsScrambling(rc)
       /\ grid[rc].symbol # grid[rc].origSymbol

----------------------------------------------------------------------------
(* C19 *)

\* C19: the canvas shows what is stored: in every reachable state, so after
\* buildGrid, after every animate() call and after every pointer move, the
\* symbol and color last passed to drawCell for a cell of the current grid
\* are the cell's stored symbol and color; the color last drawn for a cell
\* that is Idle is BASE_COLOR.
C19_DrawnIsStored ==
  /\ DOMAIN drawn = Cells(rows, cols)
  /\ \A rc \in Cells(rows, cols) :
       /\ drawn[rc] = << grid[rc].symbol, grid[rc].color >>
       /\ IsIdle(rc) => drawn[rc][2] = BASE_COLOR

\* the animate() call that ended a cell's fade drew it, in the base tone,
\* before it set the cell to Idle
C19_Witness ==
  /\ op = "animate"
  /\ \E rc \in redrawn :
       /\ IsIdle(rc)
       /\ CellKey(rc) \in toRemove
       /\ drawn[rc] = << grid[rc].symbol, BASE_COLOR >>

----------------------------------------------------------------------------
(* C20 *)

\* the encoding of line 29 against the decoding of lines 140-141, over
\* KeyRows and KeyCols
KeyRoundTrip ==
  /\ \A r \in KeyRows, c \in KeyCols :
       /\ key(r, c) \div 10000 = r
       /\ key(r, c) % 10000 = c
       /\ keyRow(key(r, c)) = r
       /\ keyCol(key(r, c)) = c
  /\ \A r1 \in KeyRows, c1 \in KeyCols, r2 \in KeyRows, c2 \in KeyCols :
       key(r1, c1) = key(r2, c2) => (r1 = r2 /\ c1 = c2)

\* C20: for rows r >= 0 and columns 0 <= c < 10000, the decoding of animate
\* gives floor(key(r, c) / 10000) = r and key(r, c) % 10000 = c, so distinct
\* pairs have distinct keys; in particular for every cell of the current
\* grid, and every cell an animate() call reads is a cell whose key the
\* pointer put in the Dirty Set.
C20_KeyInvertible ==
  /\ KeyRoundTrip
  /\ \A rc \in Cells(rows, cols) :
       << keyRow(key(rc[1], rc[2])), keyCol(key(rc[1], rc[2])) >> = rc
  /\ op = "animate" =>
       \A rc \in read : key(rc[1], rc[2]) \in dirtySet \cup toRemove

\* an animate() call has decoded the key 10000 of the cell in row 1,
\* column 0 and read that cell
C20_Witness ==
  /\ op = "animate"
  /\ 10000 \in dirtySet
  /\ <<1, 0>> \in read
  /\ ~IsIdle(<<1, 0>>)

====
